---- MODULE Spec2Model ----
(***************************************************************************)
(* Model of main.py: the two-stage subscription gate of the bot.           *)
(*   State                 STATE, the in-memory session store (line 31)    *)
(*   fetch_unique_tasks    lines 51-87, one step per provider call         *)
(*   start_flow            lines 90-110                                    *)
(*   on_verify             lines 134-184                                   *)
(* Handlers are coroutines: a step of the model runs a handler from one    *)
(* await on a provider call to the next, so handlers interleave exactly at *)
(* the provider calls (get_tasks, check_task) and at the reward send that  *)
(* precedes STATE.pop.  asyncio.sleep directly precedes the next get_tasks *)
(* with no code in between and is merged with it.  Message sends are       *)
(* assumed to succeed.  A task is modelled by its signature field.         *)
(*                                                                         *)
(*   Spec        handlers of one user interleave at their awaits           *)
(*   SpecSerial  an event is delivered only when no handler is running     *)
(*   SpecUsers   handlers of different users interleave at their awaits    *)
(*   SpecFetch   fetch_unique_tasks called directly with any arguments     *)
(***************************************************************************)
EXTENDS Integers, Sequences, FiniteSets, TLC

\* ---------------------------------------------------------------- bounds
NumSigs == 4          \* signatures the provider can hand out
MaxResp == 2          \* longest task list in one provider response
MaxFlowResp == 1      \* the same, for the fetches made by the handlers
MaxLimit == 3         \* largest limit of a direct fetch_unique_tasks call
NumUsers == 2          \* users known to the bot
NumHandlers == 2      \* handler coroutines alive at the same time
MaxEvents == 4        \* events (/start, button presses) delivered in a run

\* ------------------------------------------------------ program constants
BATCH_SIZE == 2       \* line 21, read from the environment (default "5")
TRIES == 3            \* line 66, range(3)

Sigs == 1..NumSigs
NoSig == 0            \* a task without a signature (missing, None or "")
BadEntry == -1        \* a list entry that is not a dict
Entries == Sigs \cup {NoSig, BadEntry}
Users == 1..NumUsers
OneUser == {1}        \* the user whose events Spec and SpecSerial deliver
Handlers == 1..NumHandlers
None == 0             \* no dict / no session
LanguageCodes == {"", "de"}      \* language_code, "" for None
\* from_user.language_code of a user (lines 92, 137)
LanguageCode(u) == IF u % 2 = 1 THEN "" ELSE "de"

TaskLists == UNION {[1..k -> Entries] : k \in 0..MaxResp}
Responses ==
    {[kind |-> "raise", tasks |-> <<>>], [kind |-> "nonlist", tasks |-> <<>>]}
    \cup {[kind |-> "list", tasks |-> l] : l \in TaskLists}
FlowResponses == {r \in Responses : Len(r.tasks) <= MaxFlowResp}

VARIABLES State, heap, hd, confirmed, out, events, fc
vars == <<State, heap, hd, confirmed, out, events, fc>>

\* ------------------------------------------------- fetch_unique_tasks
\* attempts list, lines 60-63
Attempts(language_code) ==
    (IF language_code # "" THEN <<language_code>> ELSE <<>>) \o <<"ru", "en", "none">>

\* lines 71-75: a raised exception or a non-list response gives no tasks
TasksOf(resp) == IF resp.kind = "list" THEN resp.tasks ELSE <<>>

\* mutant: the duplicate test of line 79 is lost
Skip_NoSeen(sig, seen) == sig = NoSig

\* line 79: the entry is skipped
Skip(sig, seen) == sig = NoSig \/ sig \in seen

\* line 83: enough tasks collected
Enough(unique, limit) == Len(unique) >= limit

\* lines 77-84: scan of one response
RECURSIVE Scan(_, _, _, _, _)
Scan(tasks, i, unique, seen, limit) ==
    IF i > Len(tasks) THEN [unique |-> unique, seen |-> seen, st |-> "more"]
    ELSE IF tasks[i] = BadEntry
         THEN [unique |-> unique, seen |-> seen, st |-> "raise"]
    ELSE IF Skip(tasks[i], seen) THEN Scan(tasks, i + 1, unique, seen, limit)
    ELSE LET u2 == Append(unique, tasks[i])
             s2 == seen \cup {tasks[i]}
         IN IF Enough(u2, limit)
            THEN [unique |-> u2, seen |-> s2, st |-> "return"]
            ELSE Scan(tasks, i + 1, u2, s2, limit)

\* mutant: seen is the caller's set itself, not a copy of it
SeenOf_Alias(exclude) == [set |-> exclude, own |-> FALSE]

\* line 57: seen = set(exclude), a new set object with the same elements
SeenOf(exclude) == [set |-> exclude, own |-> TRUE]

\* seen.add of line 81 as the caller sees it: its set, known, grows only
\* when seen is that very object
CallerSet(f, known) == IF f.own THEN known ELSE known \cup f.seen

\* exclude is the caller's set, own tells that seen is another object, ret
\* is the line of the return statement that ended the call
NoFrame ==
    [langs |-> <<>>, li |-> 0, tr |-> 0, unique |-> <<>>, seen |-> {},
     own |-> TRUE, exclude |-> {}, limit |-> 0, calls |-> 0,
     status |-> "none", ret |-> 0]

\* lines 56-63: the frame of a call up to its first get_tasks
FetchNew(language_code, exclude, limit) ==
    [langs |-> Attempts(language_code), li |-> 1, tr |-> 0, unique |-> <<>>,
     seen |-> SeenOf(exclude).set, own |-> SeenOf(exclude).own,
     exclude |-> exclude, limit |-> limit, calls |-> 0,
     status |-> "running", ret |-> 0]

\* lines 65-87: one get_tasks call answered by resp, up to the next call,
\* the return or the propagated exception
FetchAdvance(f, resp) ==
    LET r == Scan(TasksOf(resp), 1, f.unique, f.seen, f.limit)
        g0 == [f EXCEPT !.unique = r.unique, !.seen = r.seen, !.calls = f.calls + 1]
        g == [g0 EXCEPT !.exclude = CallerSet(g0, f.exclude)]
    IN IF r.st = "raise" THEN [g EXCEPT !.status = "raise"]
       ELSE IF r.st = "return" THEN [g EXCEPT !.status = "return", !.ret = 84]
       ELSE IF f.tr + 1 < TRIES THEN [g EXCEPT !.tr = f.tr + 1]
       ELSE IF f.li < Len(f.langs) THEN [g EXCEPT !.li = f.li + 1, !.tr = 0]
       ELSE [g EXCEPT !.status = "return", !.ret = 87]

\* line 100 / line 170: the signature set of a task list
SigSet(tasks) == {tasks[i] : i \in {j \in 1..Len(tasks) : tasks[j] # NoSig}}

\* ------------------------------------------------------- session store
Stages == {1, 2}      \* the stage a "verify:<stage>" button carries
DictIds == 1..(NumUsers + NumHandlers)
\* rewards is a ghost field: the reward messages sent for the session
NoDict ==
    [stage |-> 0, known_signatures |-> {}, batch_signatures |-> {}, rewards |-> 0]

\* line 93: the dict start_flow stores
NewSession ==
    [stage |-> 1, known_signatures |-> {}, batch_signatures |-> {}, rewards |-> 0]

\* line 92 / line 137
Lang(language_code) == IF language_code = "" THEN "ru" ELSE language_code

\* mutant: a short first batch is accepted
Short_Never(tasks) == FALSE

\* line 96: the first batch is unavailable
Short(tasks) == Len(tasks) < BATCH_SIZE

\* lines 101-102
Install1(session, sigs) ==
    [session EXCEPT !.batch_signatures = sigs, !.known_signatures = sigs]

\* mutant: every button is taken for current
StaleButton_Never(session, stage) == FALSE

\* line 145: the button belongs to another stage
StaleButton(session, stage) == session.stage # stage

\* mutant: the test of line 150 is lost
NoBatch_Never(batch) == FALSE

\* line 150
NoBatch(batch) == batch = {}

\* mutant: an exception of check_task is counted as a completion
Count_FailCounts(ok, res) == IF res # "false" THEN ok + 1 ELSE ok

\* lines 156-160: check_task answered res ("true", "false" or "raise")
Count(ok, res) == IF res = "true" THEN ok + 1 ELSE ok

\* mutant: one missing completion is let through
Partial_OffByOne(ok, batch) == ok < Cardinality(batch) - 1

\* line 162
Partial(ok, batch) == ok < Cardinality(batch)

\* line 168
Advance(session) == [session EXCEPT !.stage = 2]

\* mutant: the overlap test of line 172 is lost
Unavailable_NoOverlap(tasks2, sigs2, known) == Len(tasks2) < BATCH_SIZE

\* line 172: the second batch is refused
Unavailable(tasks2, sigs2, known) == Len(tasks2) < BATCH_SIZE \/ sigs2 \cap known # {}

\* mutant: line 176 is lost
Install2_NoKnown(session, sigs2) == [session EXCEPT !.batch_signatures = sigs2]

\* lines 175-176
Install2(session, sigs2) ==
    [session EXCEPT !.batch_signatures = sigs2,
                    !.known_signatures = session.known_signatures \cup sigs2]

\* mutant: the whole store is cleared
Pop_All(S, u) == [v \in Users |-> None]

\* mutant: the session is kept after the reward
Pop_Keep(S, u) == S

\* line 184: STATE.pop(user_id, None)
Pop(S, u) == [S EXCEPT ![u] = None]

\* ------------------------------------------------------------ handlers
\* A handler is a coroutine of on_start or on_verify with its local
\* variables; pc is the await it is suspended at.
NoHandler ==
    [kind |-> "none", user |-> 0, pc |-> "idle", lang |-> "", stage |-> 0,
     st |-> None, batch |-> {}, todo |-> {}, conf |-> {}, failed |-> {},
     ok |-> 0, f |-> NoFrame]

\* what the latest step sent to the user (or "raised" for an exception that
\* ended the handler); got is the signature set its fetch returned, conf
\* and failed the signatures check_task confirmed and failed on
NoOut ==
    [user |-> 0, msg |-> "none", count |-> <<0, 0>>, got |-> {},
     conf |-> {}, failed |-> {}]
Msg(u, m) == [NoOut EXCEPT !.user = u, !.msg = m]
MsgGot(u, m, sigs) == [NoOut EXCEPT !.user = u, !.msg = m, !.got = sigs]

\* the dispatcher runs a new event in the first free coroutine slot
Free(h) ==
    /\ events < MaxEvents
    /\ hd[h].pc = "idle" /\ \A g \in Handlers : g < h => hd[g].pc # "idle"

\* A handler between two get_tasks calls of one fetch_unique_tasks call
\* touches nothing but its own frame, so its steps commute with every step
\* of the other handlers: they are scheduled back to back.  The other
\* handlers still run between the snapshot of line 57 and the first answer.
MidFetch(g) == hd[g].pc = "fetch" /\ hd[g].f.calls > 0
Runnable(h) == \A g \in Handlers \ {h} : ~MidFetch(g)

\* dicts still reachable from the store or from a handler's local st
Referenced(S, H) == ({S[u] : u \in Users} \cup {H[h].st : h \in Handlers}) \ {None}
Collect(S, H, hp) == [d \in DictIds |-> IF d \in Referenced(S, H) THEN hp[d] ELSE NoDict]
Fresh(S, H) == CHOOSE d \in DictIds \ Referenced(S, H) :
                   \A e \in DictIds \ Referenced(S, H) : d <= e

\* the session of each user, by value
Store == [u \in Users |-> IF State[u] = None THEN NoDict ELSE heap[State[u]]]

Init ==
    /\ State = [u \in Users |-> None]
    /\ heap = [d \in DictIds |-> NoDict]
    /\ hd = [h \in Handlers |-> NoHandler]
    /\ confirmed = [u \in Users |-> {}]
    /\ out = NoOut
    /\ events = 0
    /\ fc = NoFrame

\* lines 90-95: /start, up to the first get_tasks
StartEvent(h, u) ==
    /\ Free(h) /\ Runnable(h)
    /\ LET d == Fresh(State, hd)
           S1 == [State EXCEPT ![u] = d]
           H1 == [hd EXCEPT ![h] =
                    [NoHandler EXCEPT !.kind = "start", !.user = u, !.pc = "fetch",
                        !.lang = Lang(LanguageCode(u)),
                        !.f = FetchNew(Lang(LanguageCode(u)), {}, BATCH_SIZE)]]
       IN /\ State' = S1
          /\ hd' = H1
          /\ heap' = Collect(S1, H1, [heap EXCEPT ![d] = NewSession])
    /\ confirmed' = [confirmed EXCEPT ![u] = {}]
    /\ out' = NoOut
    /\ events' = events + 1
    /\ UNCHANGED fc

\* lines 95-110: one get_tasks answer, and the rest of start_flow on return
StartFetchStep(h, resp) ==
    /\ hd[h].kind = "start" /\ hd[h].pc = "fetch" /\ Runnable(h)
    /\ LET r == hd[h]
           u == r.user
           f2 == FetchAdvance(r.f, resp)
           sigs == SigSet(f2.unique)
       IN CASE f2.status = "running" ->
                 /\ hd' = [hd EXCEPT ![h].f = f2]
                 /\ out' = NoOut
                 /\ UNCHANGED heap
            [] f2.status = "raise" ->
                 /\ hd' = [hd EXCEPT ![h] = NoHandler]
                 /\ out' = Msg(u, "raised")
                 /\ UNCHANGED heap
            [] OTHER ->
                 /\ hd' = [hd EXCEPT ![h] = NoHandler]
                 /\ IF Short(f2.unique)
                    THEN /\ out' = MsgGot(u, "trylater", sigs)
                         /\ UNCHANGED heap
                    ELSE IF State[u] = None      \* KeyError at line 101
                    THEN /\ out' = MsgGot(u, "raised", sigs)
                         /\ UNCHANGED heap
                    ELSE /\ heap' = [heap EXCEPT ![State[u]] =
                                        Install1(heap[State[u]], sigs)]
                         /\ out' = MsgGot(u, "started", sigs)
    /\ UNCHANGED <<State, confirmed, events, fc>>

\* lines 162-169 and 183: the decision after the loop of lines 155-160, up
\* to the next await; r is the handler with its loop finished
Decide(h, r) ==
    LET u == r.user
        H0 == [hd EXCEPT ![h] = NoHandler]
    IN /\ confirmed' = IF r.conf = r.batch
                       THEN [confirmed EXCEPT ![u] = confirmed[u] \cup {r.batch}]
                       ELSE confirmed
       /\ IF Partial(r.ok, r.batch)
          THEN /\ hd' = H0
               /\ heap' = Collect(State, H0, heap)
               /\ out' = [Msg(u, "partial") EXCEPT
                             !.count = <<r.ok, Cardinality(r.batch)>>,
                             !.conf = r.conf, !.failed = r.failed]
          ELSE IF r.stage = 1
          THEN /\ heap' = [heap EXCEPT ![r.st] = Advance(heap[r.st])]
               /\ hd' = [hd EXCEPT ![h] =
                    [r EXCEPT !.pc = "fetch",
                        !.f = FetchNew(r.lang, heap[r.st].known_signatures,
                                       BATCH_SIZE)]]
               /\ out' = NoOut
          ELSE /\ hd' = [hd EXCEPT ![h] = [r EXCEPT !.pc = "pop"]]
               /\ out' = Msg(u, "reward")
               /\ heap' = [heap EXCEPT ![r.st].rewards = @ + 1]

\* lines 134-157: a "verify:<stage>" button press, up to the first check_task
VerifyEvent(h, u, stage) ==
    /\ Free(h) /\ Runnable(h)
    /\ LET st == State[u]
           r == [NoHandler EXCEPT !.kind = "verify", !.user = u, !.pc = "check",
                    !.stage = stage, !.lang = Lang(LanguageCode(u)), !.st = st,
                    !.batch = heap[st].batch_signatures,
                    !.todo = heap[st].batch_signatures]
       IN IF st = None
          THEN /\ out' = Msg(u, "notfound")
               /\ UNCHANGED <<hd, heap, confirmed>>
          ELSE IF StaleButton(heap[st], stage)
          THEN /\ out' = Msg(u, "stale")
               /\ UNCHANGED <<hd, heap, confirmed>>
          ELSE IF NoBatch(heap[st].batch_signatures)
          THEN /\ out' = Msg(u, "noactive")
               /\ UNCHANGED <<hd, heap, confirmed>>
          ELSE IF r.todo = {}
          THEN Decide(h, r)
          ELSE /\ hd' = [hd EXCEPT ![h] = r]
               /\ out' = NoOut
               /\ UNCHANGED <<heap, confirmed>>
    /\ events' = events + 1
    /\ UNCHANGED <<State, fc>>

\* lines 155-169, 183: one check_task answer; after the last one the
\* decision of lines 162-169 and 183
VerifyCheckStep(h, sig, res) ==
    /\ hd[h].kind = "verify" /\ hd[h].pc = "check" /\ Runnable(h)
    /\ sig \in hd[h].todo
    /\ LET r == hd[h]
           r2 == [r EXCEPT !.todo = r.todo \ {sig},
                     !.ok = Count(r.ok, res),
                     !.conf = IF res = "true" THEN r.conf \cup {sig} ELSE r.conf,
                     !.failed = IF res = "raise" THEN r.failed \cup {sig} ELSE r.failed]
       IN IF r2.todo # {}
          THEN /\ hd' = [hd EXCEPT ![h] = r2]
               /\ out' = NoOut
               /\ UNCHANGED <<heap, confirmed>>
          ELSE Decide(h, r2)
    /\ UNCHANGED <<State, events, fc>>

\* lines 169-181: one get_tasks answer, and lines 170-181 on return
VerifyFetchStep(h, resp) ==
    /\ hd[h].kind = "verify" /\ hd[h].pc = "fetch" /\ Runnable(h)
    /\ LET r == hd[h]
           u == r.user
           f2 == FetchAdvance(r.f, resp)
           sigs2 == SigSet(f2.unique)
           H0 == [hd EXCEPT ![h] = NoHandler]
           \* the heap once the call has worked on its exclusion set
           hp == [heap EXCEPT ![r.st].known_signatures = CallerSet(f2, @)]
       IN CASE f2.status = "running" ->
                 /\ hd' = [hd EXCEPT ![h].f = f2]
                 /\ out' = NoOut
                 /\ heap' = hp
            [] f2.status = "raise" ->
                 /\ hd' = H0
                 /\ heap' = Collect(State, H0, hp)
                 /\ out' = Msg(u, "raised")
            [] OTHER ->
                 /\ hd' = H0
                 /\ IF Unavailable(f2.unique, sigs2, hp[r.st].known_signatures)
                    THEN /\ heap' = Collect(State, H0, hp)
                         /\ out' = MsgGot(u, "unavailable", sigs2)
                    ELSE /\ heap' = Collect(State, H0,
                                [hp EXCEPT ![r.st] = Install2(hp[r.st], sigs2)])
                         /\ out' = MsgGot(u, "advanced", sigs2)
    /\ UNCHANGED <<State, confirmed, events, fc>>

\* line 184, after the reward message has been sent
VerifyPop(h) ==
    /\ hd[h].kind = "verify" /\ hd[h].pc = "pop" /\ Runnable(h)
    /\ LET S1 == Pop(State, hd[h].user)
           H0 == [hd EXCEPT ![h] = NoHandler]
       IN /\ State' = S1
          /\ hd' = H0
          /\ heap' = Collect(S1, H0, heap)
    /\ out' = NoOut
    /\ UNCHANGED <<confirmed, events, fc>>

Next ==
    \/ \E h \in Handlers, u \in OneUser : StartEvent(h, u)
    \/ \E h \in Handlers, resp \in FlowResponses : StartFetchStep(h, resp)
    \/ \E h \in Handlers, u \in OneUser, s \in Stages : VerifyEvent(h, u, s)
    \/ \E h \in Handlers, sig \in Sigs, res \in {"true", "false", "raise"} :
           VerifyCheckStep(h, sig, res)
    \/ \E h \in Handlers, resp \in FlowResponses : VerifyFetchStep(h, resp)
    \/ \E h \in Handlers : VerifyPop(h)

Spec == Init /\ [][Next]_vars

\* ------------------------------------------- one event handled at a time
AllIdle == \A h \in Handlers : hd[h].pc = "idle"

\* lines 113-115: /start delivered when no handler is running
SerialStart(u) == AllIdle /\ \E h \in Handlers : StartEvent(h, u)

\* lines 134-135: a button press delivered when no handler is running
SerialVerify(u, stage) == AllIdle /\ \E h \in Handlers : VerifyEvent(h, u, stage)

NextSerial ==
    \/ \E u \in OneUser : SerialStart(u)
    \/ \E h \in Handlers, resp \in FlowResponses : StartFetchStep(h, resp)
    \/ \E u \in OneUser, s \in Stages : SerialVerify(u, s)
    \/ \E h \in Handlers, sig \in Sigs, res \in {"true", "false", "raise"} :
           VerifyCheckStep(h, sig, res)
    \/ \E h \in Handlers, resp \in FlowResponses : VerifyFetchStep(h, resp)
    \/ \E h \in Handlers : VerifyPop(h)

SpecSerial == Init /\ [][NextSerial]_vars

\* ----------------------------- handlers of different users interleaved
\* no handler of user u is running
UserIdle(u) == \A h \in Handlers : hd[h].user # u

\* lines 113-115: /start of a user none of whose handlers is running
UsersStart(u) == UserIdle(u) /\ \E h \in Handlers : StartEvent(h, u)

\* lines 134-135: a button press of such a user
UsersVerify(u, stage) == UserIdle(u) /\ \E h \in Handlers : VerifyEvent(h, u, stage)

NextUsers ==
    \/ \E u \in Users : UsersStart(u)
    \/ \E h \in Handlers, resp \in FlowResponses : StartFetchStep(h, resp)
    \/ \E u \in Users, s \in Stages : UsersVerify(u, s)
    \/ \E h \in Handlers, sig \in Sigs, res \in {"true", "false", "raise"} :
           VerifyCheckStep(h, sig, res)
    \/ \E h \in Handlers, resp \in FlowResponses : VerifyFetchStep(h, resp)
    \/ \E h \in Handlers : VerifyPop(h)

SpecUsers == Init /\ [][NextUsers]_vars

\* ------------------------------------- fetch_unique_tasks called directly
\* line 51: a call with arbitrary arguments
FetchCall(language_code, exclude, limit) ==
    /\ fc.status # "running"
    /\ fc' = FetchNew(language_code, exclude, limit)
    /\ UNCHANGED <<State, heap, hd, confirmed, out, events>>

\* lines 65-87: one get_tasks answer
FetchStep(resp) ==
    /\ fc.status = "running"
    /\ fc' = FetchAdvance(fc, resp)
    /\ UNCHANGED <<State, heap, hd, confirmed, out, events>>

NextFetch ==
    \/ \E lc \in LanguageCodes, exclude \in SUBSET Sigs, limit \in 0..MaxLimit :
           FetchCall(lc, exclude, limit)
    \/ \E resp \in Responses : FetchStep(resp)

SpecFetch == Init /\ [][NextFetch]_vars

\* ------------------------------------------------------------- claims
Returned == fc.status = "return"
Distinct(seq) == \A i, j \in 1..Len(seq) : i # j => seq[i] # seq[j]

\* C2: the tasks fetch_unique_tasks returns have non-empty signatures that
\* are pairwise distinct and none of which is in the exclusion set it was
\* given.
C2_UniqueAndNotExcluded ==
    Returned =>
        /\ \A i \in 1..Len(fc.unique) : fc.unique[i] \in Sigs \ fc.exclude
        /\ Distinct(fc.unique)

\* a call that returned two tasks although some signatures were excluded
C2_Witness ==
    Returned /\ Len(fc.unique) = 2 /\ Cardinality(fc.exclude) = 2 /\ fc.calls > 1

\* C3 as claimed: for every limit >= 0, limit = 0 included, fetch_unique_tasks
\* returns at most limit tasks.
C3_AtMostLimit == Returned => Len(fc.unique) <= fc.limit

\* --- the flow (Spec)
Sessions == {u \in Users : State[u] # None}
Session(u) == heap[State[u]]
StoreUnchanged == State' = State /\ Store' = Store

\* C1 as claimed: the reward link is sent to a user only after two
\* batches, each of BATCH_SIZE signatures and mutually disjoint, have each
\* been fully confirmed by check_task for that user since their last start.
C1_RewardAfterTwoBatches ==
    out.msg = "reward" =>
        \E B1, B2 \in confirmed[out.user] :
            /\ Cardinality(B1) = BATCH_SIZE /\ Cardinality(B2) = BATCH_SIZE
            /\ B1 \cap B2 = {}

\* C4 as claimed: when a fully confirmed stage-1 verify finds the second
\* batch unavailable, the session is retained and its stage is still 1.
C4_StageStays1 ==
    out.msg = "unavailable" =>
        out.user \in Sessions /\ Session(out.user).stage = 1

\* a verify handler whose fetch of the second batch returns in this step
Fetched2(h) ==
    /\ hd[h].kind = "verify" /\ hd[h].pc = "fetch" /\ hd'[h].pc = "idle"
    /\ out'.msg \in {"advanced", "unavailable"}

\* C5: a stage-2 batch that replaces batch_signatures is disjoint from the
\* known_signatures the session had before the replacement; a fetched batch
\* that overlaps the known set aborts the transition and leaves
\* batch_signatures as it was, also when verify handlers interleave.
C5_SecondBatchDisjoint ==
    [][\A h \in Handlers : Fetched2(h) =>
          LET d == hd[h].st
              inStore == State[hd[h].user] = d
          IN /\ out'.msg = "advanced" =>
                   /\ out'.got \cap heap[d].known_signatures = {}
                   /\ inStore => heap'[d].batch_signatures = out'.got
             /\ out'.got \cap heap[d].known_signatures # {} =>
                   /\ out'.msg = "unavailable"
                   /\ inStore => heap'[d].batch_signatures = heap[d].batch_signatures
      ]_vars

\* a full second batch was fetched and refused: it overlapped what another
\* verify handler had installed meanwhile
C5_Witness == out.msg = "unavailable" /\ Cardinality(out.got) = BATCH_SIZE

\* C6: a verify event whose stage differs from the stage of the user's
\* session leaves the session store unchanged and makes no provider call:
\* it is answered at once, and only an event carrying the session's stage
\* leaves a handler waiting for the provider.
C6_StaleLeavesStore ==
    [][/\ out'.msg = "stale" => StoreUnchanged /\ heap' = heap /\ hd' = hd
       /\ \A h \in Handlers :
             hd[h].pc = "idle" /\ hd'[h].kind = "verify" =>
                 /\ heap[hd'[h].st].stage = hd'[h].stage
      ]_vars

\* a stale button was pressed on an existing session
C6_Witness ==
    out.msg = "stale" /\ out.user \in Sessions /\ Session(out.user).batch_signatures # {}

\* C7: in every session, batch_signatures is a subset of known_signatures.
C7_BatchSubsetKnown ==
    \A d \in DictIds : heap[d].batch_signatures \subseteq heap[d].known_signatures

\* a session at stage 2 whose known set holds both batches
C7_Witness ==
    \E u \in Sessions :
        /\ Session(u).stage = 2
        /\ Cardinality(Session(u).batch_signatures) = BATCH_SIZE
        /\ Cardinality(Session(u).known_signatures) = 2 * BATCH_SIZE

\* the step in which a verify handler gets its last check_task answer
LastCheck(h) ==
    hd[h].kind = "verify" /\ hd[h].pc = "check" /\ hd'[h].pc # "check"
\* the signatures check_task has confirmed once that step is done
ConfAfter(h) == IF hd'[h].pc = "idle" THEN out'.conf ELSE hd'[h].conf

\* C8: when a verify event finds fewer confirmed completions than the batch
\* size, the session store is unchanged, no reward is sent and the message
\* reports the number of confirmed signatures out of the batch size.
C8_PartialKeepsSession ==
    [][\A h \in Handlers :
          LastCheck(h) /\ Cardinality(ConfAfter(h)) < Cardinality(hd[h].batch) =>
              /\ StoreUnchanged
              /\ out'.msg = "partial"
              /\ out'.count = <<Cardinality(ConfAfter(h)), Cardinality(hd[h].batch)>>
      ]_vars

\* one of two tasks was confirmed
C8_Witness == out.msg = "partial" /\ out.count = <<1, BATCH_SIZE>>

\* C9: the count of a verify event lies between 0 and the batch size; a
\* check_task that fails counts as not completed and the other signatures
\* are still checked; the batch is treated as completed exactly when the
\* count equals the batch size.
C9_CountAndCompletion ==
    /\ \A h \in Handlers : hd[h].kind = "verify" =>
          LET r == hd[h] IN
          /\ 0 <= r.ok /\ r.ok <= Cardinality(r.batch)
          /\ r.ok = Cardinality(r.conf)
          /\ r.conf \cap r.failed = {}
          /\ r.pc = "check" => r.todo # {}
          /\ r.pc \in {"fetch", "pop"} =>
                r.todo = {} /\ r.ok = Cardinality(r.batch) /\ r.conf = r.batch
    /\ out.msg = "partial" =>
          /\ 0 <= out.count[1] /\ out.count[1] < out.count[2]
          /\ out.count[1] = Cardinality(out.conf)
          /\ out.conf \cap out.failed = {}

\* check_task failed on one signature and confirmed the other
C9_Witness ==
    out.msg = "partial" /\ out.failed # {} /\ out.conf # {}

\* the step in which start_flow gets fewer than BATCH_SIZE tasks
StartShort(h) ==
    /\ hd[h].kind = "start" /\ hd'[h].pc = "idle"
    /\ out'.msg = "trylater"
\* a verify event for user u is delivered in this step
VerifyEventFor(u) ==
    /\ events' = events + 1 /\ State' = State
    /\ out'.user = u \/ \E h \in Handlers : hd[h].pc = "idle" /\ hd'[h].user = u

\* C10: a start that fetches fewer than BATCH_SIZE tasks installs nothing,
\* and a session without a batch is not usable: a verify event that finds
\* it is answered at once, changes nothing in the store, starts no
\* verification and sends no reward.
C10_ShortStartUnusable ==
    [][/\ \A h \in Handlers : StartShort(h) =>
             StoreUnchanged /\ Cardinality(out'.got) < BATCH_SIZE
       /\ \A u \in Sessions :
             VerifyEventFor(u) /\ Session(u).batch_signatures = {} =>
                 /\ StoreUnchanged /\ hd' = hd
                 /\ out'.msg \in {"noactive", "stale"}
      ]_vars

\* a start has given up, no handler is running, and a verify event found
\* the session it left without a batch
C10_Witness ==
    /\ out.msg = "noactive" /\ AllIdle
    /\ out.user \in Sessions /\ Session(out.user) = NewSession

\* the step in which a verify handler of user u runs line 184
Popped(u) ==
    \E h \in Handlers : hd[h].pc = "pop" /\ hd[h].user = u /\ hd'[h].pc = "idle"
\* a /start of user u is delivered in this step
StartEventFor(u) ==
    /\ events' = events + 1 /\ State'[u] # State[u]
    /\ \E h \in Handlers : hd[h].pc = "idle" /\ hd'[h].kind = "start" /\ hd'[h].user = u

ActsFor(u) ==
    \/ out'.user = u
    \/ \E h \in Handlers : hd'[h] # hd[h] /\ (hd[h].user = u \/ hd'[h].user = u)

\* C12: a step of a handler of one user, start or verify, leaves the session
\* of every other user as it was, whatever the interleaving of the handlers
\* of different users.
C12_OtherUsersUntouched ==
    [][\A b \in Users :
          ~ActsFor(b) => State'[b] = State[b] /\ Store'[b] = Store[b]
      ]_vars

\* two users with different sessions, each with a verify handler suspended
\* at a provider call
C12_Witness ==
    \E h1, h2 \in Handlers :
        /\ hd[h1].user = 1 /\ hd[h2].user = 2
        /\ hd[h1].kind = "verify" /\ hd[h2].kind = "verify"
        /\ Sessions = {1, 2} /\ Store[1] # Store[2]
        /\ Session(1).batch_signatures # {} /\ Session(2).batch_signatures # {}

\* --- fetch_unique_tasks (SpecFetch)
\* C13 as claimed: fetch_unique_tasks makes at most 3 provider calls per
\* locale setting over at most 4 settings, 12 calls in all, whatever the
\* provider answers; when the attempts are exhausted it returns what it has
\* collected, which is fewer than limit tasks.
C13_BoundedCalls ==
    /\ fc.calls <= 12
    /\ Len(fc.langs) <= 4
    /\ fc.status = "running" =>
          /\ fc.li <= Len(fc.langs) /\ fc.tr < 3
          /\ fc.calls = (fc.li - 1) * 3 + fc.tr
    /\ fc.ret = 87 =>
          /\ fc.status = "return" /\ fc.calls = 3 * Len(fc.langs)
          /\ Len(fc.unique) < fc.limit

\* C14 as claimed: whatever a get_tasks call does (raises, returns a value
\* that is not a list, returns a list with entries that are not task
\* records), the tasks collected before it are kept and fetch_unique_tasks
\* goes on or returns: no error reaches its caller.
C14_FailuresAbsorbed ==
    [][fc.status = "running" =>
          /\ fc'.status \in {"running", "return"}
          /\ SubSeq(fc'.unique, 1, Len(fc.unique)) = fc.unique
      ]_vars

\* the locale settings in the order claimed, for a call with language_code lc
LocaleOrder(lc) == IF lc = "" THEN <<"ru", "en", "none">> ELSE <<lc, "ru", "en", "none">>

\* C16 as claimed: the provider is asked in the order user locale, "ru",
\* "en", no locale filter; the next setting is asked only after the
\* current one has been tried 3 times with fewer than limit tasks
\* collected; no call is made once limit unique tasks have been collected.
C16_LocaleOrder ==
    [][fc.status = "running" =>
          /\ fc.langs \in {LocaleOrder(lc) : lc \in LanguageCodes}
          /\ Len(fc.unique) < fc.limit
          /\ fc'.status = "running" =>
                \/ fc'.li = fc.li /\ fc'.tr = fc.tr + 1
                \/ fc'.li = fc.li + 1 /\ fc'.tr = 0 /\ fc.tr = 2
      ]_vars

\* --- the stages of a session (Spec)
\* the state of user u: 0 for NONE, else the stage of the session
StageOf(S, u) == S[u].stage
\* a verify handler of user u for the given stage gets its last check_task
\* answer in this step and has every signature of its batch confirmed
FullVerify(u, stage) ==
    \E h \in Handlers :
        /\ LastCheck(h) /\ hd[h].user = u /\ hd[h].stage = stage
        /\ ConfAfter(h) = hd[h].batch
\* a verify handler of user u that had its stage-2 batch fully confirmed
\* finishes in this step
FullVerifyEnds(u) ==
    \E h \in Handlers :
        /\ hd[h].pc = "pop" /\ hd[h].user = u /\ hd[h].stage = 2
        /\ hd[h].conf = hd[h].batch /\ hd'[h].pc = "idle"

\* C15 as claimed, a /start being read as the beginning of a new session
\* (it puts the user in STAGE_1 whatever the state was): every other change
\* of a user's state is STAGE_1 -> STAGE_2 or STAGE_2 -> NONE and is made
\* by a fully completed verify; nothing but a start leads to STAGE_1, and
\* no event moves STAGE_1 directly to NONE.
C15_StageChain ==
    [][\A u \in Users :
          LET a == StageOf(Store, u)
              b == StageOf(Store', u)
          IN /\ StartEventFor(u) => b = 1
             /\ ~StartEventFor(u) /\ a # b =>
                   \/ a = 1 /\ b = 2 /\ FullVerify(u, 1)
                   \/ a = 2 /\ b = 0 /\ FullVerifyEnds(u)
      ]_vars

\* C17: the batch_signatures of a session is empty or holds exactly
\* BATCH_SIZE signatures: neither start nor the stage-1 to stage-2
\* transition installs a fetch result shorter than BATCH_SIZE.
C17_BatchEmptyOrFull ==
    /\ BATCH_SIZE >= 1
    /\ \A d \in DictIds : Cardinality(heap[d].batch_signatures) \in {0, BATCH_SIZE}
    /\ out.msg \in {"started", "advanced"} => Cardinality(out.got) = BATCH_SIZE

\* the fetch of the second batch came back with one task only and the
\* session still holds its first batch
C17_Witness ==
    /\ out.msg = "unavailable" /\ Cardinality(out.got) = 1
    /\ out.user \in Sessions
    /\ Cardinality(Session(out.user).batch_signatures) = BATCH_SIZE

\* --- handlers of the same user interleaved (Spec)
\* C18 as claimed: for one session the reward link is sent at most once,
\* also when two stage-2 verify handlers of the user interleave at their
\* awaits.
C18_RewardOnce == \A d \in DictIds : heap[d].rewards <= 1

\* C19 as claimed: a verify handler changes or deletes only the session it
\* read at its beginning; when the user's entry is no longer that session
\* (a start has stored a new one while the handler was suspended), no step
\* of the handler removes or changes the entry.
C19_VerifyOwnSession ==
    [][\A h \in Handlers :
          (hd[h].kind = "verify" /\ hd'[h] # hd[h]) =>
              LET u == hd[h].user
              IN State[u] # hd[h].st =>
                     State'[u] = State[u] /\ Store'[u] = Store[u]
      ]_vars

\* C20: fetch_unique_tasks leaves the exclusion set of its caller as it
\* was; so every step of a verify handler other than the installation of
\* the second batch, and in particular the fetch that ends in an aborted
\* transition, leaves known_signatures and batch_signatures of its
\* session as they were.
C20_ExcludeUntouched ==
    [][\A h \in Handlers :
          (hd[h].kind = "verify" /\ hd'[h] # hd[h]) =>
              LET d == hd[h].st
              IN /\ (hd[h].pc = "fetch" /\ hd'[h].pc = "fetch") =>
                       hd'[h].f.exclude = hd[h].f.exclude
                 /\ (out'.msg # "advanced" /\ d \in Referenced(State', hd')) =>
                       /\ heap'[d].known_signatures = heap[d].known_signatures
                       /\ heap'[d].batch_signatures = heap[d].batch_signatures
      ]_vars

\* the fetch of the second batch collected a new signature and was then
\* refused: the session knows its first batch only
C20_Witness ==
    /\ out.msg = "unavailable" /\ out.got # {} /\ out.user \in Sessions
    /\ out.got \cap Session(out.user).known_signatures = {}
    /\ Session(out.user).known_signatures = Session(out.user).batch_signatures
    /\ Session(out.user).batch_signatures \in confirmed[out.user]
====
